---- MODULE Spec2Model ----
(***************************************************************************)
(* Model of the Ising lattice driver of src/main.cpp: the single-process   *)
(* entry point (lines 19-60) and the MPI entry point (lines 64-198) with   *)
(* its coordinator (rank 0) / worker (rank >= 1) row exchange.              *)
(*                                                                         *)
(* The Surface class (surface.h) and the single-process simulate            *)
(* (sim_serial.h) are not part of src/; their operations are modelled from *)
(* the specification text and are marked as such where they are defined.   *)
(* main, initialise, simulate and master_to_slaves_sync take the Surface   *)
(* by value; its rows and statistics are reached through the object        *)
(* (lattice.surface[y] is the MPI buffer), so the copies of one process    *)
(* share them and each process has one lattice.                            *)
(*                                                                         *)
(* One action is one blocking MPI call or one local operation of a         *)
(* process; the loop tests and branches between two such operations are    *)
(* evaluated at the end of the step that reaches them.                     *)
(***************************************************************************)
EXTENDS Integers, Sequences, FiniteSets, TLC

\* ------------------------------------------------------------------ bounds
MaxSize == 2        \* largest lattice dimension given on the command line
MaxWorkers == 2     \* largest number of worker ranks (world_size - 1)
MaxLoops == 2       \* largest sweep count n given on the command line

VARIABLES
    program,        \* "serial" (main, line 40) or "mpi" (main, line 160)
    mode,           \* MPI_Send completion: "buffered" or "rendezvous"
    argc,           \* number of command-line arguments
    n,              \* atoi(argv[1])
    rows,           \* atoi(argv[2])
    world_size,     \* MPI_Comm_size
    pc,             \* position of every process
    caller,         \* call site of master_to_slaves_sync: "main" / "simulate"
    constructed,    \* the process has constructed its Surface lattice
    surface,        \* lattice.surface of every process (row y, column x)
    cleared,        \* lattice.clear() has run in this process
    complete,       \* lattice.complete of every process
    rows_per_slave, \* the global of line 66, one per process
    start, finish,  \* locals of simulate, lines 96-97
    i, j, y, dest,  \* loop counters of simulate / master_to_slaves_sync
    avgEnergy, avgMag,  \* the coordinator's statistics arrays
    chan,           \* messages in flight, per (source, destination)
    status,         \* exit status of every process
    saves,          \* log of lattice.save() calls
    writes,         \* log of the indices of avgEnergy/avgMag written
    gathered,       \* number of gather receives completed by rank 0
    prev            \* rank 0's lattice after clear() / after the last gather

vars == << program, mode, argc, n, rows, world_size, pc, caller, constructed,
           surface, cleared, complete, rows_per_slave, start, finish, i, j, y,
           dest, avgEnergy, avgMag, chan, status, saves, writes, gathered,
           prev >>

inputVars == << program, mode, argc, n, rows, world_size >>
loopVars == << i, j, y, dest >>
statVars == << avgEnergy, avgMag, writes >>

Ranks == 0..MaxWorkers

\* my_rank of a process is its index; the ranks that exist in a run
Procs == 0..(world_size - 1)
Workers == 1..(world_size - 1)

ArgValues == -1..MaxSize
LoopValues == {-1, 0, 1, MaxLoops}
ArgCounts == {3, 4, 6}

NoLattice == << >>

\* ---------------------------------------------------------------- lattices
Uniform(s, v) == [yy \in 0..(s - 1) |-> [xx \in 0..(s - 1) |-> v]]

Striped(s) ==
    [yy \in 0..(s - 1) |-> [xx \in 0..(s - 1) |-> IF yy % 2 = 0 THEN 1 ELSE -1]]

\* contents a freshly constructed Surface may hold
ConstructedLattices(s) ==
    IF s <= 0 THEN {NoLattice} ELSE {Uniform(s, 1), Striped(s)}

\* contents lattice.clear() may leave
ClearedLattices(s) ==
    IF s <= 0 THEN {NoLattice} ELSE {Uniform(s, 1)}

Wrap(a, s) == (a + s) % s

RECURSIVE SumOver(_, _)
SumOver(f, S) ==
    IF S = {} THEN 0
    ELSE LET e == CHOOSE e \in S : TRUE IN f[e] + SumOver(f, S \ {e})

Cells(s) == (0..(s - 1)) \X (0..(s - 1))

\* Surface::calculate_energy: nearest-neighbour energy, each edge once
calculate_energy(lat, s) ==
    LET e == [c \in Cells(s) |->
                 0 - lat[c[2]][c[1]] *
                     (lat[c[2]][Wrap(c[1] + 1, s)] + lat[Wrap(c[2] + 1, s)][c[1]])]
    IN SumOver(e, Cells(s))

\* Surface::calculate_magnetism: the sum of all spins
calculate_magnetism(lat, s) ==
    LET m == [c \in Cells(s) |-> lat[c[2]][c[1]]]
    IN SumOver(m, Cells(s))

\* energy change of flipping the cell at column x, row yy
DeltaE(lat, s, x, yy) ==
    2 * lat[yy][x] *
        ( lat[yy][Wrap(x - 1, s)] + lat[yy][Wrap(x + 1, s)]
        + lat[Wrap(yy - 1, s)][x] + lat[Wrap(yy + 1, s)][x] )

\* Surface::calculate_spin(coords = {x, yy}): Metropolis update of one cell,
\* accept tells whether the random draw accepts an energy-raising flip
calculate_spin(lat, s, x, yy, accept) ==
    IF DeltaE(lat, s, x, yy) <= 0 \/ accept
    THEN [lat EXCEPT ![yy][x] = 0 - lat[yy][x]]
    ELSE lat

\* the loop over k of lines 105-108 on row jj, one draw per column
RECURSIVE UpdateRowFrom(_, _, _, _, _)
UpdateRowFrom(lat, s, jj, k, draws) ==
    IF k >= s THEN lat
    ELSE UpdateRowFrom(calculate_spin(lat, s, k, jj, draws[k]), s, jj, k + 1, draws)

UpdateRow(lat, s, jj, draws) == UpdateRowFrom(lat, s, jj, 0, draws)

\* the random draws of one row: the acceptance of an energy-raising flip,
\* per column; here none is accepted or only the first column's is
Draws(s) ==
    { [k \in 0..(s - 1) |-> FALSE],
      [k \in 0..(s - 1) |-> k = 0] }


\* ------------------------------------------------------------ initial state
Init ==
    /\ program \in {"serial", "mpi"}
    /\ argc \in ArgCounts
    /\ n \in LoopValues
    /\ rows \in ArgValues
    /\ world_size \in IF program = "mpi" THEN 1..(MaxWorkers + 1) ELSE {1}
    /\ mode \in IF program = "mpi" THEN {"buffered", "rendezvous"} ELSE {"buffered"}
    /\ pc = [r \in Ranks |-> IF r < world_size THEN "main" ELSE "absent"]
    /\ caller = [r \in Ranks |-> "main"]
    /\ constructed = [r \in Ranks |-> FALSE]
    /\ surface = [r \in Ranks |-> NoLattice]
    /\ cleared = [r \in Ranks |-> FALSE]
    /\ complete = [r \in Ranks |-> FALSE]
    /\ rows_per_slave = [r \in Ranks |-> 0]
    /\ start = [r \in Ranks |-> 0]
    /\ finish = [r \in Ranks |-> 0]
    /\ i = [r \in Ranks |-> 0]
    /\ j = [r \in Ranks |-> 0]
    /\ y = [r \in Ranks |-> 0]
    /\ dest = [r \in Ranks |-> 0]
    /\ avgEnergy = << >>
    /\ avgMag = << >>
    /\ chan = [p \in Ranks \X Ranks |-> << >>]
    /\ status = [r \in Ranks |-> "running"]
    /\ saves = << >>
    /\ writes = << >>
    /\ gathered = 0
    /\ prev = NoLattice

\* the statistics arrays a Surface of n sweeps is constructed with
NewStats(len) == [idx \in 0..(len - 1) |-> 0]

Exit(r, st) ==
    /\ pc' = [pc EXCEPT ![r] = "exited"]
    /\ status' = [status EXCEPT ![r] = st]

\* ------------------------------------------------- single-process program
\* main, lines 40-50: argument checks of the single-process entry point
SerialMain(r) ==
    /\ program = "serial"
    /\ pc[r] = "main"
    /\ IF argc < 4 \/ argc > 5 \/ n <= 0
       THEN Exit(r, "EXIT_FAILURE")
       ELSE /\ pc' = [pc EXCEPT ![r] = "construct"]
            /\ UNCHANGED status
    /\ UNCHANGED << inputVars, caller, constructed, surface, cleared, complete,
                    rows_per_slave, start, finish, loopVars, statVars, chan,
                    saves, gathered, prev >>

\* main, lines 52-59: Surface lattice(argv[0], n, atoi(argv[2]), ...)
SerialConstruct(r) ==
    /\ program = "serial"
    /\ pc[r] = "construct"
    /\ \E lat \in ConstructedLattices(rows) :
           surface' = [surface EXCEPT ![r] = lat]
    /\ constructed' = [constructed EXCEPT ![r] = TRUE]
    /\ avgEnergy' = NewStats(n)
    /\ avgMag' = NewStats(n)
    /\ pc' = [pc EXCEPT ![r] = "s_clear"]
    /\ UNCHANGED << inputVars, caller, cleared, complete, rows_per_slave, start,
                    finish, loopVars, writes, chan, status, saves, gathered,
                    prev >>

\* the record one call of lattice.save() leaves in the log
SaveRecord(r) ==
    [rank |-> r, complete |-> complete[r], cleared |-> cleared[r],
     sweeps |-> i[r],
     written |-> IF program = "mpi" THEN gathered
                 ELSE IF rows > 0 THEN i[r] * rows + j[r] ELSE 0]

\* initialise, line 20
SerialClear(r) ==
    /\ program = "serial"
    /\ pc[r] = "s_clear"
    /\ \E lat \in ClearedLattices(rows) :
           /\ surface' = [surface EXCEPT ![r] = lat]
           /\ prev' = lat
    /\ cleared' = [cleared EXCEPT ![r] = TRUE]
    /\ pc' = [pc EXCEPT ![r] = "s_save"]
    /\ UNCHANGED << inputVars, caller, constructed, complete, rows_per_slave,
                    start, finish, loopVars, statVars, chan, status, saves,
                    gathered >>

\* initialise, line 21
SerialSave(r) ==
    /\ program = "serial"
    /\ pc[r] = "s_save"
    /\ saves' = Append(saves, SaveRecord(r))
    /\ pc' = [pc EXCEPT ![r] = "s_simulate"]
    /\ UNCHANGED << inputVars, caller, constructed, surface, cleared, complete,
                    rows_per_slave, start, finish, loopVars, statVars, chan,
                    status, gathered, prev >>

\* initialise, line 23: the single-process simulate updates row j of sweep i
SerialRow(r) ==
    /\ program = "serial"
    /\ pc[r] = "s_simulate"
    /\ i[r] < n
    /\ j[r] < rows
    /\ \E draws \in Draws(rows) :
           surface' = [surface EXCEPT ![r] = UpdateRow(surface[r], rows, j[r], draws)]
    /\ j' = [j EXCEPT ![r] = j[r] + 1]
    /\ UNCHANGED << inputVars, pc, caller, constructed, cleared, complete,
                    rows_per_slave, start, finish, i, y, dest, statVars, chan,
                    status, saves, gathered, prev >>

\* initialise, line 23: the single-process simulate records the statistics
\* of sweep i once every row is updated
SerialAggregate(r) ==
    /\ program = "serial"
    /\ pc[r] = "s_simulate"
    /\ i[r] < n
    /\ j[r] >= rows
    /\ avgEnergy' = [avgEnergy EXCEPT ![i[r]] = calculate_energy(surface[r], rows)]
    /\ avgMag' = [avgMag EXCEPT ![i[r]] = calculate_magnetism(surface[r], rows)]
    /\ writes' = Append(writes, i[r])
    /\ prev' = surface[r]
    /\ i' = [i EXCEPT ![r] = i[r] + 1]
    /\ j' = [j EXCEPT ![r] = 0]
    /\ UNCHANGED << inputVars, pc, caller, constructed, surface, cleared,
                    complete, rows_per_slave, start, finish, y, dest, chan,
                    status, saves, gathered >>

\* initialise, lines 23-25: simulate returns, lattice.complete = true
SerialComplete(r) ==
    /\ program = "serial"
    /\ pc[r] = "s_simulate"
    /\ i[r] >= n
    /\ complete' = [complete EXCEPT ![r] = TRUE]
    /\ pc' = [pc EXCEPT ![r] = "s_final_save"]
    /\ UNCHANGED << inputVars, caller, constructed, surface, cleared,
                    rows_per_slave, start, finish, loopVars, statVars, chan,
                    status, saves, gathered, prev >>

\* initialise, lines 26-30, and the return of main, line 59
SerialFinalSave(r) ==
    /\ program = "serial"
    /\ pc[r] = "s_final_save"
    /\ saves' = Append(saves, SaveRecord(r))
    /\ Exit(r, "EXIT_SUCCESS")
    /\ UNCHANGED << inputVars, caller, constructed, surface, cleared, complete,
                    rows_per_slave, start, finish, loopVars, statVars, chan,
                    gathered, prev >>

\* ------------------------------------------------------------ MPI program
\* Msg sent with the constant tag 0 instead of the row index
Msg_Untagged(tag, data, phase, sweep) ==
    [tag |-> 0, data |-> data, phase |-> phase, sweep |-> sweep]

\* a row-sized message: MPI tag, payload, and the phase and sweep of its send
Msg(tag, data, phase, sweep) ==
    [tag |-> tag, data |-> data, phase |-> phase, sweep |-> sweep]

\* RecvPosted with the gather receive of rank 0 posted for source 1 only,
\* not for MPI_ANY_SOURCE
RecvPosted_FromFirstWorker(dst, src, tag) ==
    IF dst = 0
    THEN pc[0] = "gather" /\ y[0] = tag /\ src = 1
    ELSE pc[dst] = "sync_recv" /\ src = 0 /\ y[dst] = tag

\* the receive a process is blocked in, if any: MPI_Recv of line 82 (source 0,
\* tag y) for a worker, MPI_Recv of line 115 (MPI_ANY_SOURCE, tag y) for rank 0
RecvPosted(dst, src, tag) ==
    IF dst = 0
    THEN pc[0] = "gather" /\ y[0] = tag
    ELSE pc[dst] = "sync_recv" /\ src = 0 /\ y[dst] = tag

\* MPI_Send returns at once when buffered, and only once the matching
\* receive is posted when it is a rendezvous
CanSend(src, dst, tag) == mode = "buffered" \/ RecvPosted(dst, src, tag)

\* FirstMatch with the tag ignored (a receive posted with MPI_ANY_TAG)
FirstMatch_AnyTag(q, tag) == IF Len(q) > 0 THEN 1 ELSE 0

\* position in queue q of the earliest message carrying tag, 0 if none
FirstMatch(q, tag) ==
    IF \E p \in 1..Len(q) : q[p].tag = tag
    THEN CHOOSE p \in 1..Len(q) :
            q[p].tag = tag /\ \A o \in 1..(p - 1) : q[o].tag # tag
    ELSE 0

Remove(q, p) == [o \in 1..(Len(q) - 1) |-> IF o < p THEN q[o] ELSE q[o + 1]]

\* lattice.surface[yy] as the receive buffer of MPI_Recv
StoreRow(lat, yy, data) == [lat EXCEPT ![yy] = data]

\* RowsPerSlave rounded up instead of truncated
RowsPerSlave_RoundUp(rws, ws) == (rws + (ws - 1) - 1) \div (ws - 1)

\* line 192
RowsPerSlave(rws, ws) == rws \div (ws - 1)

\* RangeStart without the offset of the coordinator's rank
RangeStart_NoOffset(rank, rps) == rank * rps

\* line 96
RangeStart(rank, rps) == (rank - 1) * rps

\* RangeFinish one row further
RangeFinish_OneMore(st, rps) == st + rps + 1

\* line 97
RangeFinish(st, rps) == st + rps

\* LoopContinues stopping one sweep short
LoopContinues_OneShort(idx, loops) == idx < loops - 1

\* LoopContinues with an inclusive upper limit
LoopContinues_Inclusive(idx, loops) == idx <= loops

\* line 99
LoopContinues(idx, loops) == idx < loops

\* lines 74, 100, 113, 135 and 143
IsMaster(r) == r = 0

\* --- control flow: a loop test or branch is evaluated at the end of the
\* --- step that reaches it; the operators below give the control point
\* --- (pc and counters) a process stands at next
Ctl(r) ==
    [pc |-> pc[r], caller |-> caller[r], i |-> i[r], j |-> j[r], y |-> y[r],
     dest |-> dest[r]]

Goto(r, c) ==
    /\ pc' = [pc EXCEPT ![r] = c.pc]
    /\ caller' = [caller EXCEPT ![r] = c.caller]
    /\ i' = [i EXCEPT ![r] = c.i]
    /\ j' = [j EXCEPT ![r] = c.j]
    /\ y' = [y EXCEPT ![r] = c.y]
    /\ dest' = [dest EXCEPT ![r] = c.dest]

\* SweepLoop without the rank test of line 143: every rank goes on to
\* lattice.complete = true and lattice.save()
SweepLoop_Unguarded(r, c, st, fn) ==
    IF LoopContinues(c.i, n)
    THEN IF IsMaster(r)
         THEN [c EXCEPT !.pc = "aggregate"]
         ELSE IF st < fn
              THEN [c EXCEPT !.pc = "compute", !.j = st]
              ELSE [c EXCEPT !.pc = "sync_recv", !.caller = "simulate",
                             !.j = st, !.y = 0]
    ELSE [c EXCEPT !.pc = "set_complete"]

\* simulate, line 99 with lines 100, 104 and 122: the test of the sweep loop;
\* rank 0 goes on to the statistics, a worker to row start of its range
\* (st, fn), and past the last sweep simulate returns to initialise
\* (lines 139-143) and, for a worker, on to line 196
SweepLoop(r, c, st, fn) ==
    IF LoopContinues(c.i, n)
    THEN IF IsMaster(r)
         THEN [c EXCEPT !.pc = "aggregate"]
         ELSE IF st < fn
              THEN [c EXCEPT !.pc = "compute", !.j = st]
              ELSE [c EXCEPT !.pc = "sync_recv", !.caller = "simulate",
                             !.j = st, !.y = 0]
    ELSE [c EXCEPT !.pc = IF IsMaster(r) THEN "set_complete" ELSE "finalize"]

\* SyncReturn with initialise going straight to simulate, without the
\* clear() and save() of lines 135-137
SyncReturn_NoClear(r, c) ==
    IF c.caller = "main"
    THEN [c EXCEPT !.pc = "sim_entry"]
    ELSE SweepLoop(r, [c EXCEPT !.i = c.i + 1], start[r], finish[r])

\* return from master_to_slaves_sync to its call site: line 194 (initialise,
\* lines 134-135) after the call of main, line 121 (++i) and the loop test
\* after the call of simulate
SyncReturn(r, c) ==
    IF c.caller = "main"
    THEN [c EXCEPT !.pc = IF IsMaster(r) THEN "init_clear" ELSE "sim_entry"]
    ELSE SweepLoop(r, [c EXCEPT !.i = c.i + 1], start[r], finish[r])

\* master_to_slaves_sync, lines 75-76 and 81: the loop tests of the sync, for
\* rank 0 at worker c.dest and row c.y, for a worker at row c.y
SyncLoop(r, c) ==
    IF IsMaster(r)
    THEN IF c.dest < world_size
         THEN IF c.y < rows
              THEN [c EXCEPT !.pc = "sync_send"]
              ELSE IF c.dest + 1 < world_size
                   THEN [c EXCEPT !.pc = "sync_send", !.dest = c.dest + 1, !.y = 0]
                   ELSE SyncReturn(r, [c EXCEPT !.dest = c.dest + 1, !.y = 0])
         ELSE SyncReturn(r, c)
    ELSE IF c.y < rows
         THEN [c EXCEPT !.pc = "sync_recv"]
         ELSE SyncReturn(r, c)

\* entry of master_to_slaves_sync (lines 73-76 and 81) from call site site
EnterSync(r, c, site) ==
    SyncLoop(r, [c EXCEPT !.caller = site, !.dest = 1, !.y = 0])

\* ComputeLoop without the call of line 120: past its last row a worker goes
\* straight on to the next sweep
ComputeLoop_NoSync(r, c) ==
    IF c.j < finish[r]
    THEN [c EXCEPT !.pc = "compute"]
    ELSE SweepLoop(r, [c EXCEPT !.i = c.i + 1], start[r], finish[r])

\* simulate, line 104 with line 120: the test of the loop over the rows of a
\* worker; past the last row the worker calls master_to_slaves_sync
ComputeLoop(r, c) ==
    IF c.j < finish[r]
    THEN [c EXCEPT !.pc = "compute"]
    ELSE EnterSync(r, c, "simulate")

\* simulate, line 114 with line 120: the test of the gather loop of rank 0;
\* past the last row rank 0 calls master_to_slaves_sync
GatherLoop(r, c) ==
    IF c.y < rows
    THEN [c EXCEPT !.pc = "gather"]
    ELSE EnterSync(r, c, "simulate")

\* --- the steps of the MPI program
\* main, lines 160-183: argument checks of the MPI entry point
MainArgs(r) ==
    /\ program = "mpi"
    /\ pc[r] = "main"
    /\ IF argc < 4 \/ argc > 5 \/ n <= 0 \/ rows <= 0
       THEN Exit(r, "EXIT_FAILURE")
       ELSE /\ pc' = [pc EXCEPT ![r] = "construct"]
            /\ UNCHANGED status
    /\ UNCHANGED << inputVars, caller, constructed, surface, cleared, complete,
                    rows_per_slave, start, finish, loopVars, statVars, chan,
                    saves, gathered, prev >>

\* main, lines 185-190: Surface lattice(argv[0], n, rows, ...)
Construct(r) ==
    /\ program = "mpi"
    /\ pc[r] = "construct"
    /\ \E lat \in ConstructedLattices(rows) :
           surface' = [surface EXCEPT ![r] = lat]
    /\ constructed' = [constructed EXCEPT ![r] = TRUE]
    /\ IF IsMaster(r)
       THEN avgEnergy' = NewStats(n) /\ avgMag' = NewStats(n)
       ELSE UNCHANGED << avgEnergy, avgMag >>
    /\ pc' = [pc EXCEPT ![r] = "partition"]
    /\ UNCHANGED << inputVars, caller, cleared, complete, rows_per_slave, start,
                    finish, loopVars, writes, chan, status, saves, gathered,
                    prev >>

\* main, lines 192-193: rows_per_slave = rows / (world_size - 1) and the call
\* of master_to_slaves_sync.  With world_size = 1 the division is by zero:
\* the process is killed or goes on with an arbitrary quotient.
Partition(r) ==
    /\ program = "mpi"
    /\ pc[r] = "partition"
    /\ \/ /\ world_size - 1 # 0
          /\ rows_per_slave' =
                [rows_per_slave EXCEPT ![r] = RowsPerSlave(rows, world_size)]
          /\ Goto(r, EnterSync(r, Ctl(r), "main"))
          /\ UNCHANGED status
       \/ /\ world_size - 1 = 0
          /\ \E q \in {0, rows} :
                rows_per_slave' = [rows_per_slave EXCEPT ![r] = q]
          /\ Goto(r, EnterSync(r, Ctl(r), "main"))
          /\ UNCHANGED status
       \/ /\ world_size - 1 = 0
          /\ Exit(r, "SIGFPE")
          /\ UNCHANGED << rows_per_slave, caller, loopVars >>
    /\ UNCHANGED << inputVars, constructed, surface, cleared, complete, start,
                    finish, statVars, chan, saves, gathered, prev >>

\* the sweep a sync belongs to: -1 for the sync of main, else the sweep i
SyncSweep(r) == IF caller[r] = "main" THEN 0 - 1 ELSE i[r]

\* master_to_slaves_sync, lines 75-79: one MPI_Send of rank 0
SyncSend(r) ==
    /\ pc[r] = "sync_send"
    /\ CanSend(r, dest[r], y[r])
    /\ chan' = [chan EXCEPT ![<<r, dest[r]>>] =
                   Append(@, Msg(y[r], surface[r][y[r]], "sync", SyncSweep(r)))]
    /\ Goto(r, SyncLoop(r, [Ctl(r) EXCEPT !.y = y[r] + 1]))
    /\ UNCHANGED << inputVars, constructed, surface, cleared, complete,
                    rows_per_slave, start, finish, statVars, status, saves,
                    gathered, prev >>

\* master_to_slaves_sync, lines 81-83: one MPI_Recv of a worker
SyncRecv(r) ==
    /\ pc[r] = "sync_recv"
    /\ LET q == chan[<<0, r>>]
           p == FirstMatch(q, y[r])
       IN /\ p > 0
          /\ surface' = [surface EXCEPT ![r] = StoreRow(surface[r], y[r], q[p].data)]
          /\ chan' = [chan EXCEPT ![<<0, r>>] = Remove(q, p)]
    /\ Goto(r, SyncLoop(r, [Ctl(r) EXCEPT !.y = y[r] + 1]))
    /\ UNCHANGED << inputVars, constructed, cleared, complete, rows_per_slave,
                    start, finish, statVars, status, saves, gathered, prev >>

\* initialise, lines 135-136: lattice.clear() on rank 0
InitClear(r) ==
    /\ pc[r] = "init_clear"
    /\ \E lat \in ClearedLattices(rows) :
           /\ surface' = [surface EXCEPT ![r] = lat]
           /\ prev' = lat
    /\ cleared' = [cleared EXCEPT ![r] = TRUE]
    /\ pc' = [pc EXCEPT ![r] = "init_save"]
    /\ UNCHANGED << inputVars, caller, constructed, complete, rows_per_slave,
                    start, finish, loopVars, statVars, chan, status, saves,
                    gathered >>

\* initialise, line 137: lattice.save() on rank 0
InitSave(r) ==
    /\ pc[r] = "init_save"
    /\ saves' = Append(saves, SaveRecord(r))
    /\ pc' = [pc EXCEPT ![r] = "sim_entry"]
    /\ UNCHANGED << inputVars, caller, constructed, surface, cleared, complete,
                    rows_per_slave, start, finish, loopVars, statVars, chan,
                    status, gathered, prev >>

\* simulate, lines 95-99: the row range, the loop counter and the first loop
\* test
SimEntry(r) ==
    /\ pc[r] = "sim_entry"
    /\ LET st == RangeStart(r, rows_per_slave[r])
           fn == RangeFinish(st, rows_per_slave[r])
       IN /\ start' = [start EXCEPT ![r] = st]
          /\ finish' = [finish EXCEPT ![r] = fn]
          /\ Goto(r, SweepLoop(r, [Ctl(r) EXCEPT !.i = 0], st, fn))
    /\ UNCHANGED << inputVars, constructed, surface, cleared, complete,
                    rows_per_slave, statVars, chan, status, saves, gathered,
                    prev >>

\* StatIndex one entry further
StatIndex_Next(idx) == idx + 1

\* line 101: the index of the statistics arrays written in sweep idx
StatIndex(idx) == idx

\* simulate, lines 101-102 and 113-114: rank 0 records the statistics
Aggregate(r) ==
    /\ pc[r] = "aggregate"
    /\ avgEnergy' = [avgEnergy EXCEPT ![StatIndex(i[r])] =
                        calculate_energy(surface[r], rows)]
    /\ avgMag' = [avgMag EXCEPT ![StatIndex(i[r])] =
                     calculate_magnetism(surface[r], rows)]
    /\ writes' = Append(writes, StatIndex(i[r]))
    /\ Goto(r, GatherLoop(r, [Ctl(r) EXCEPT !.y = 0]))
    /\ UNCHANGED << inputVars, constructed, surface, cleared, complete,
                    rows_per_slave, start, finish, chan, status, saves,
                    gathered, prev >>

\* simulate, lines 104-108: a worker updates every column of row j
ComputeRow(r) ==
    /\ pc[r] = "compute"
    /\ \E draws \in Draws(rows) :
           surface' = [surface EXCEPT ![r] = UpdateRow(surface[r], rows, j[r], draws)]
    /\ pc' = [pc EXCEPT ![r] = "send_row"]
    /\ UNCHANGED << inputVars, caller, constructed, cleared, complete,
                    rows_per_slave, start, finish, loopVars, statVars, chan,
                    status, saves, gathered, prev >>

\* simulate, line 109: MPI_Send of row j to rank 0, tagged j
SendRow(r) ==
    /\ pc[r] = "send_row"
    /\ CanSend(r, 0, j[r])
    /\ chan' = [chan EXCEPT ![<<r, 0>>] =
                   Append(@, Msg(j[r], surface[r][j[r]], "gather", i[r]))]
    /\ Goto(r, ComputeLoop(r, [Ctl(r) EXCEPT !.j = j[r] + 1]))
    /\ UNCHANGED << inputVars, constructed, surface, cleared, complete,
                    rows_per_slave, start, finish, statVars, status, saves,
                    gathered, prev >>

\* simulate, lines 114-117: one MPI_Recv of rank 0, MPI_ANY_SOURCE, tag y
GatherRecv(r) ==
    /\ pc[r] = "gather"
    /\ \E src \in Workers :
         LET q == chan[<<src, r>>]
             p == FirstMatch(q, y[r])
             lat == StoreRow(surface[r], y[r], q[p].data)
         IN /\ p > 0
            /\ surface' = [surface EXCEPT ![r] = lat]
            /\ chan' = [chan EXCEPT ![<<src, r>>] = Remove(q, p)]
            /\ prev' = IF y[r] + 1 < rows THEN prev ELSE lat
    /\ gathered' = gathered + 1
    /\ Goto(r, GatherLoop(r, [Ctl(r) EXCEPT !.y = y[r] + 1]))
    /\ UNCHANGED << inputVars, constructed, cleared, complete, rows_per_slave,
                    start, finish, statVars, status, saves >>

\* initialise, line 144: lattice.complete = true on rank 0
SetComplete(r) ==
    /\ pc[r] = "set_complete"
    /\ complete' = [complete EXCEPT ![r] = TRUE]
    /\ pc' = [pc EXCEPT ![r] = "final_save"]
    /\ UNCHANGED << inputVars, caller, constructed, surface, cleared,
                    rows_per_slave, start, finish, loopVars, statVars, chan,
                    status, saves, gathered, prev >>

\* initialise, lines 145-150: the final lattice.save() on rank 0
FinalSave(r) ==
    /\ pc[r] = "final_save"
    /\ saves' = Append(saves, SaveRecord(r))
    /\ pc' = [pc EXCEPT ![r] = "finalize"]
    /\ UNCHANGED << inputVars, caller, constructed, surface, cleared, complete,
                    rows_per_slave, start, finish, loopVars, statVars, chan,
                    status, gathered, prev >>

\* main, lines 196-197: MPI_Finalize and return status
Finalize(r) ==
    /\ pc[r] = "finalize"
    /\ Exit(r, "EXIT_SUCCESS")
    /\ UNCHANGED << inputVars, caller, constructed, surface, cleared, complete,
                    rows_per_slave, start, finish, loopVars, statVars, chan,
                    saves, gathered, prev >>

\* ------------------------------------------------------------ specification
Next ==
    \/ \E r \in Ranks : SerialMain(r)
    \/ \E r \in Ranks : SerialConstruct(r)
    \/ \E r \in Ranks : SerialClear(r)
    \/ \E r \in Ranks : SerialSave(r)
    \/ \E r \in Ranks : SerialRow(r)
    \/ \E r \in Ranks : SerialAggregate(r)
    \/ \E r \in Ranks : SerialComplete(r)
    \/ \E r \in Ranks : SerialFinalSave(r)
    \/ \E r \in Ranks : MainArgs(r)
    \/ \E r \in Ranks : Construct(r)
    \/ \E r \in Ranks : Partition(r)
    \/ \E r \in Ranks : SyncSend(r)
    \/ \E r \in Ranks : SyncRecv(r)
    \/ \E r \in Ranks : InitClear(r)
    \/ \E r \in Ranks : InitSave(r)
    \/ \E r \in Ranks : SimEntry(r)
    \/ \E r \in Ranks : Aggregate(r)
    \/ \E r \in Ranks : ComputeRow(r)
    \/ \E r \in Ranks : SendRow(r)
    \/ \E r \in Ranks : GatherRecv(r)
    \/ \E r \in Ranks : SetComplete(r)
    \/ \E r \in Ranks : FinalSave(r)
    \/ \E r \in Ranks : Finalize(r)

Spec == Init /\ [][Next]_vars

\* the steps of process r
ProcStep(r) ==
    \/ SerialMain(r) \/ SerialConstruct(r) \/ SerialClear(r) \/ SerialSave(r)
    \/ SerialRow(r) \/ SerialAggregate(r) \/ SerialComplete(r)
    \/ SerialFinalSave(r)
    \/ MainArgs(r) \/ Construct(r) \/ Partition(r) \/ SyncSend(r) \/ SyncRecv(r)
    \/ InitClear(r) \/ InitSave(r) \/ SimEntry(r) \/ Aggregate(r)
    \/ ComputeRow(r) \/ SendRow(r) \/ GatherRecv(r) \/ SetComplete(r)
    \/ FinalSave(r) \/ Finalize(r)

\* every process is an operating-system process of its own: one that can
\* take a step (is not blocked in MPI_Send or MPI_Recv) eventually takes it
FairSpec == Init /\ [][Next]_vars /\ \A r \in Ranks : WF_vars(ProcStep(r))

\* ------------------------------------------------------------------ claims
Mpi == program = "mpi"

\* arguments both entry points are meant to accept
ValidArgs == argc \in {4, 5} /\ n > 0 /\ rows > 0

workerCount == world_size - 1

\* worker w has entered simulate, so its row range is computed
Ranged(w) ==
    \/ pc[w] \in {"compute", "send_row", "finalize"}
    \/ caller[w] = "simulate"
    \/ status[w] = "EXIT_SUCCESS"

RowRange(w) == start[w]..(finish[w] - 1)

\* worker w stands at the start of a sweep: before the update of the first
\* row of its range
AtSweepStart(w) == pc[w] = "compute" /\ j[w] = start[w]

\* rank 0 has just completed the last gather receive of sweep i[0]
GatherComplete ==
    /\ Mpi
    /\ pc[0] = "sync_send"
    /\ caller[0] = "simulate"
    /\ dest[0] = 1
    /\ y[0] = 0

\* every process has returned from main
AllExited == \A r \in Procs : pc[r] = "exited"

NoMessages == \A p \in Ranks \X Ranks : chan[p] = << >>

\* C1: at the start of every sweep, sweep 0 included, every worker's copy of
\* the lattice equals the coordinator's lattice as of the end of the previous
\* sweep (for sweep 0: as left by clear()).
C1_WorkerCopyEqualsCoordinator ==
    Mpi /\ cleared[0] =>
        \A w \in Workers : AtSweepStart(w) => surface[w] = prev

C3_NoProcessBlocksForever ==
    Mpi /\ ValidArgs /\ workerCount >= 1 =>
        \/ ENABLED Next
        \/ AllExited /\ complete[0] /\ Len(saves) = 2

\* C4: once the coordinator's complete is true the statistics hold exactly
\* n entries, written at the indices 0..n-1 in increasing order, each once.
C4_StatsCompleteInOrder ==
    Mpi /\ complete[0] =>
        /\ writes = [k \in 1..n |-> k - 1]
        /\ DOMAIN avgEnergy = 0..(n - 1)
        /\ DOMAIN avgMag = 0..(n - 1)

C4_Witness ==
    /\ Mpi
    /\ complete[0]
    /\ n = 2
    /\ world_size = 3
    /\ avgEnergy[0] # avgEnergy[1]

\* the worker whose range holds row yy
Owner(yy) == CHOOSE w \in Workers : yy \in RowRange(w)

\* C5: after the gather of a sweep every row of the coordinator's lattice in
\* the range of a worker equals that row of the worker's copy after its
\* compute; every gather receive stores the owner's row at its own index
\* and leaves every other row unchanged, whatever the arrival order.
C5_GatherReassembles ==
    /\ [](GatherComplete =>
            \A w \in Workers : \A yy \in RowRange(w) :
                surface[0][yy] = surface[w][yy])
    /\ [][Mpi /\ pc[0] = "gather" /\ gathered' # gathered =>
            /\ \E w \in Workers : y[0] \in RowRange(w)
            /\ surface'[0][y[0]] = surface[Owner(y[0])][y[0]]
            /\ \A yy \in 0..(rows - 1) :
                  yy # y[0] => surface'[0][yy] = surface[0][yy]]_vars

C5_Witness ==
    /\ GatherComplete
    /\ world_size = 3
    /\ rows = 2
    /\ i[0] = 1
    /\ surface[0][0] # surface[0][1]

\* C6: the row ranges of the workers are pairwise disjoint and their union
\* is the full row index set 0..rows-1.
C6_RangesPartitionRows ==
    Mpi /\ (\A w \in Workers : Ranged(w)) /\ workerCount >= 1 =>
        /\ \A v, w \in Workers : v # w => RowRange(v) \cap RowRange(w) = {}
        /\ UNION {RowRange(w) : w \in Workers} = 0..(rows - 1)

\* C7: rank r in 1..workerCount holds the range [(r-1)*q, r*q) with
\* q = rows div workerCount, from its entry of simulate on and in every
\* sweep; rank 0 never computes a row.
C7_RangeOfRank ==
    /\ Mpi =>
          /\ \A w \in Workers : Ranged(w) =>
                /\ start[w] = (w - 1) * (rows \div workerCount)
                /\ finish[w] = w * (rows \div workerCount)
          /\ pc[0] \notin {"compute", "send_row"}
    /\ \A w \in 1..4 :
          /\ RangeStart(w, RowsPerSlave(100, 5)) = 25 * (w - 1)
          /\ RangeFinish(RangeStart(w, RowsPerSlave(100, 5)), RowsPerSlave(100, 5))
                = 25 * w

C7_Witness ==
    /\ Mpi
    /\ world_size = 3
    /\ rows = 2
    /\ AtSweepStart(2)
    /\ i[2] = 1
    /\ start[2] = 1
    /\ finish[2] = 2

\* C8: save() is called at most twice and exactly twice in a full run, only
\* by rank 0: first after clear() and before any row of the lattice is
\* written by a sweep, then with complete set after the last sweep.
C8_SavesTwiceByCoordinator ==
    /\ Len(saves) <= 2
    /\ \A k \in 1..Len(saves) : saves[k].rank = 0
    /\ Len(saves) >= 1 =>
          /\ saves[1].cleared
          /\ saves[1].written = 0
          /\ saves[1].sweeps = 0
    /\ Len(saves) = 2 =>
          /\ saves[2].sweeps = n
          /\ saves[2].written = (IF rows > 0 THEN n * rows ELSE 0)
    /\ (\E r \in Procs : status[r] = "EXIT_SUCCESS" /\ IsMaster(r)) =>
          Len(saves) = 2

C8_Witness ==
    /\ Mpi
    /\ world_size = 3
    /\ rows = 2
    /\ n = 2
    /\ AllExited
    /\ Len(saves) = 2

\* C9: with no worker (world_size = 1) the run ends in a failure exit before
\* INIT: the lattice is never cleared or saved, rank 0 never enters simulate,
\* no message is sent and the run never ends in success.
C9_NoWorkersIsConfigurationError ==
    Mpi /\ workerCount = 0 =>
        /\ ~cleared[0]
        /\ saves = << >>
        /\ pc[0] \notin {"sim_entry", "aggregate", "gather"}
        /\ NoMessages
        /\ status[0] # "EXIT_SUCCESS"

\* C10: in both entry points n <= 0 or size <= 0 makes the program return
\* the failure status before a lattice is constructed: no clear(), save(),
\* simulate() or message.
C10_BadArgumentsFailEarly ==
    n <= 0 \/ rows <= 0 =>
        \A r \in Procs :
            /\ ~constructed[r]
            /\ ~cleared[r]
            /\ saves = << >>
            /\ writes = << >>
            /\ NoMessages
            /\ pc[r] = "exited" => status[r] = "EXIT_FAILURE"

\* worker w is applying the spin updates of sweep i[w] or sending their rows
Computing(w) == pc[w] \in {"compute", "send_row"}

\* rank 0 has sent worker w every row of the sync that ends sweep k
SyncSentTo(w, k) ==
    \/ i[0] > k
    \/ /\ i[0] = k
       /\ pc[0] = "sync_send"
       /\ caller[0] = "simulate"
       /\ dest[0] > w

\* the messages in flight from src to dst, as a set
InFlight(src, dst) == {chan[<<src, dst>>][p] : p \in 1..Len(chan[<<src, dst>>])}

\* C11: sweep boundaries are full barriers: a worker applies no update of
\* sweep k + 1 before rank 0 has completed every gather receive of sweep k
\* and the worker has received every row of the sync that follows (rank 0
\* has sent them all and none is left in flight, so that at the start of the
\* sweep the worker's copy is the gathered lattice); and while rank 0 is in
\* the gather of sweep k no row produced in another sweep is in flight to it.
C11_SweepBoundariesAreBarriers ==
    Mpi =>
        /\ \A w \in Workers : Computing(w) /\ i[w] >= 1 =>
              /\ gathered >= i[w] * rows
              /\ SyncSentTo(w, i[w] - 1)
              /\ InFlight(0, w) = {}
              /\ AtSweepStart(w) => surface[w] = prev
        /\ pc[0] = "gather" =>
              \A w \in Workers : \A m \in InFlight(w, 0) :
                  m.phase = "gather" /\ m.sweep = i[0]

C11_Witness ==
    /\ Mpi
    /\ world_size = 3
    /\ rows = 2
    /\ pc[0] = "gather"
    /\ i[0] = 1
    /\ pc[1] = "send_row"
    /\ i[1] = 1
    /\ pc[2] = "sync_recv"
    /\ i[2] = 1
    /\ InFlight(2, 0) # {}

\* C12: rank 0 completes INIT (clear() and the first save()) before it sends
\* the first row of the first sync to any worker, and the rows of that sync
\* are the rows of the cleared lattice.
C12_InitBeforeFirstSync ==
    Mpi /\ (\E w \in Workers : InFlight(0, w) # {}) =>
        /\ cleared[0]
        /\ Len(saves) >= 1
        /\ \A w \in Workers : \A m \in InFlight(0, w) :
              m.sweep = 0 - 1 => m.data \in {lat[m.tag] : lat \in ClearedLattices(rows)}

\* C13: during the compute of any sweep a worker changes only cells of its
\* own copy in a row of its range [start, finish), where 0 <= start and
\* finish <= size: a step of its loop over the rows leaves every other row of
\* its copy, every other worker's copy and rank 0's lattice unchanged.
C13_ComputeWritesOwnRangeOnly ==
    /\ [](Mpi => \A w \in Workers : Ranged(w) =>
            /\ 0 <= start[w]
            /\ finish[w] <= rows
            /\ Computing(w) => j[w] \in RowRange(w))
    /\ [][Mpi => \A w \in Workers :
            pc[w] = "compute" /\ pc'[w] = "send_row" =>
                /\ \A yy \in 0..(rows - 1) :
                      yy # j[w] => surface'[w][yy] = surface[w][yy]
                /\ \A r \in Procs : r # w => surface'[r] = surface[r]]_vars

C13_Witness ==
    /\ Mpi
    /\ world_size = 3
    /\ rows = 2
    /\ pc[2] = "send_row"
    /\ j[2] = 1
    /\ i[2] = 1
    /\ surface[2][1][0] # surface[0][1][0]

\* the rows past the last range: indices >= workerCount * (rows div workerCount)
RemainderRows == (workerCount * (rows \div workerCount))..(rows - 1)

RECURSIVE UpdateRowUpTo(_, _, _, _, _)
UpdateRowUpTo(lat, s, jj, k, draws) ==
    IF k <= 0 THEN lat
    ELSE calculate_spin(UpdateRowUpTo(lat, s, jj, k - 1, draws), s, k - 1, jj,
                        draws[k - 1])

\* the four toroidal neighbours the update of column x, row yy reads
NeighboursRead(lat, s, x, yy) ==
    << lat[yy][Wrap(x - 1, s)], lat[yy][Wrap(x + 1, s)],
       lat[Wrap(yy - 1, s)][x], lat[Wrap(yy + 1, s)][x] >>

\* C15: every spin update of a sweep reads the four toroidal neighbours of
\* its cell as they were at the end of the previous sweep (in rank 0's
\* lattice after the last gather), never a value changed during the sweep.
C15_UpdatesReadPreviousSweep ==
    Mpi =>
        \A w \in Workers : pc[w] = "compute" /\ i[w] >= 1 =>
            \A draws \in Draws(rows) : \A k \in 0..(rows - 1) :
                NeighboursRead(UpdateRowUpTo(surface[w], rows, j[w], k, draws),
                               rows, k, j[w])
                    = NeighboursRead(prev, rows, k, j[w])

\* C16: rank 0's complete is false in every state before rank 0 has returned
\* from simulate with all n sweeps finished; the first save() is taken with
\* complete false and the second with complete true; complete never goes
\* back to false.
C16_CompleteOnlyAfterAllSweeps ==
    /\ [](Mpi =>
            /\ complete[0] =>
                  /\ pc[0] \in {"final_save", "finalize", "exited"}
                  /\ i[0] = n
                  /\ Len(writes) = n
                  /\ gathered = n * rows
            /\ Len(saves) >= 1 => ~saves[1].complete
            /\ Len(saves) >= 2 => saves[2].complete)
    /\ [][Mpi /\ complete[0] => complete'[0]]_vars

C16_Witness ==
    /\ Mpi
    /\ world_size = 2
    /\ rows = 2
    /\ n = 2
    /\ pc[0] = "finalize"
    /\ complete[0]
    /\ Len(saves) = 2
    /\ ~saves[1].complete
    /\ saves[2].complete

\* size is a positive multiple of workerCount >= 1, the arguments are valid
Divisible == Mpi /\ ValidArgs /\ workerCount >= 1 /\ rows % workerCount = 0

\* every process has returned from main with success, rank 0 after its
\* final save()
Terminated ==
    /\ AllExited
    /\ \A r \in Procs : status[r] = "EXIT_SUCCESS"
    /\ complete[0]
    /\ Len(saves) = 2

\* C17: when size is a positive multiple of workerCount >= 1 the protocol is
\* free of deadlock and terminates, with MPI_Send buffered as well as with
\* MPI_Send a rendezvous: in no state is every process blocked before all
\* have returned, and every fair run ends with all processes returned.
C17_DeadlockFreeBothSendModes ==
    /\ [](Divisible => ENABLED Next \/ Terminated)
    /\ \A md \in {"buffered", "rendezvous"} :
          (Divisible /\ mode = md) ~> Terminated

C17_Witness ==
    /\ Divisible
    /\ mode = "rendezvous"
    /\ world_size = 3
    /\ rows = 2
    /\ n = 2
    /\ Terminated

\* the messages queue q holds that a receive of tag would match
Matching(q, tag) == {p \in 1..Len(q) : q[p].tag = tag}

\* every process has returned from simulate
AllReturnedFromSimulate ==
    \A r \in Procs : pc[r] \in {"set_complete", "final_save", "finalize", "exited"}

\* C18: when size is a positive multiple of workerCount every message is
\* received exactly once, by a receive of its own phase and sweep: a gather
\* receive of rank 0 (any source, tag y) can only match the one row y that
\* the owner of row y sent in the current sweep, a sync receive of a worker
\* (source 0, tag y) only the one row y of the current sync; no message of
\* another phase or sweep, or of a row already received, is in flight to a
\* receiving process; once all have returned from simulate none is left.
C18_MessagesMatchPhaseAndSweep ==
    Divisible =>
        /\ pc[0] = "gather" =>
              /\ \A w \in Workers : \A m \in InFlight(w, 0) :
                    /\ m.phase = "gather"
                    /\ m.sweep = i[0]
                    /\ m.tag >= y[0]
                    /\ m.tag \in RowRange(w)
              /\ \A w \in Workers : \A p \in Matching(chan[<<w, 0>>], y[0]) :
                    /\ w = Owner(y[0])
                    /\ chan[<<w, 0>>][p].data = surface[w][y[0]]
                    /\ Matching(chan[<<w, 0>>], y[0]) = {p}
        /\ \A w \in Workers : pc[w] = "sync_recv" =>
              /\ \A m \in InFlight(0, w) :
                    /\ m.phase = "sync"
                    /\ m.sweep = SyncSweep(w)
                    /\ m.tag >= y[w]
              /\ \A p \in Matching(chan[<<0, w>>], y[w]) :
                    Matching(chan[<<0, w>>], y[w]) = {p}
        /\ AllReturnedFromSimulate => NoMessages

C18_Witness ==
    /\ Divisible
    /\ mode = "buffered"
    /\ world_size = 3
    /\ rows = 2
    /\ pc[0] = "gather"
    /\ i[0] = 1
    /\ y[0] = 0
    /\ Matching(chan[<<1, 0>>], 0) # {}
    /\ InFlight(2, 0) # {}
    /\ pc[2] = "sync_recv"

\* C19: in the distributed simulate entry i of avgEnergy and avgMag is the
\* energy and magnetism of rank 0's lattice after exactly i completed
\* gathers: entry 0 is computed on the lattice as cleared, and each entry is
\* written once; the lattice of the last gather, the one the final save()
\* writes, is aggregated into no entry.
C19_EntryIsLatticeAfterIGathers ==
    /\ [][Mpi /\ writes' # writes =>
            /\ writes' = Append(writes, i[0])
            /\ Len(writes) = i[0]
            /\ gathered = i[0] * rows
            /\ i[0] = 0 => cleared[0] /\ surface[0] \in ClearedLattices(rows)
            /\ surface[0] = prev
            /\ avgEnergy'[i[0]] = calculate_energy(surface[0], rows)
            /\ avgMag'[i[0]] = calculate_magnetism(surface[0], rows)
            /\ \A k \in 0..(n - 1) : k # i[0] =>
                  avgEnergy'[k] = avgEnergy[k] /\ avgMag'[k] = avgMag[k]]_vars
    /\ [](Mpi /\ Len(saves) = 2 =>
            /\ saves[2].written = n * rows
            /\ gathered = n * rows
            /\ Len(writes) = n
            /\ pc[0] \notin {"aggregate", "gather"})

C19_Witness ==
    /\ Mpi
    /\ n = 2
    /\ rows = 2
    /\ Len(saves) = 2
    /\ avgMag[0] # avgMag[1]
    /\ calculate_magnetism(surface[0], rows) \notin {avgMag[0], avgMag[1]}

====
